---- MODULE Spec2Model ----
(***************************************************************************)
(* Model of the Agnostic Autonomy Kernel (src/app.py): the tick            *)
(* orchestrator AutonomyKernel.step, the governance gate, the default      *)
(* stage modules and the hash-chained audit ledger.                        *)
(*                                                                         *)
(* Numbers: health, load and risk fractions are integers in thousandths    *)
(* (0.35 is 350); unrounded risk scores are in thousandths of a point      *)
(* (25.0 is 25000); rounded scores, drivers, clarity and the governance    *)
(* thresholds are in tenths of a point (40.0 is 400).                      *)
(* A Python Optional is a sequence of length 0 (None) or 1.                *)
(***************************************************************************)
EXTENDS Integers, Sequences, FiniteSets, TLC

VARIABLES
    tick_id,        \* AutonomyKernel.tick_id
    prev_world,     \* AutonomyKernel.prev_world (Optional)
    audit_chain,    \* AutonomyKernel.audit_chain
    prev_hash,      \* AutonomyKernel.prev_hash
    gov_cfg,        \* AutonomyKernel.gov_cfg
    pc,             \* position inside step(), "idle" between calls
    frame,          \* step() local: frame (Optional)
    world,          \* step() local: world (Optional)
    risk,           \* step() local: risk (Optional)
    intents,        \* step() local: intents
    proposals,      \* step() local: proposals
    decisions,      \* step() local: decisions
    actuation,      \* step() local: actuation, <<"list", cmds>> or <<"None">>
    audit_entries,  \* step() local: audit_entries built so far
    result,         \* outcome of the last finished step() call
    last_ok_tick,   \* tick id returned by the last successful call (0: none)
    pre,            \* kernel state saved when the running call started
    failed_since_ok, \* failed calls since the last successful call
    handed          \* the prev_world arguments the running call has passed

vars == <<tick_id, prev_world, audit_chain, prev_hash, gov_cfg, pc, frame,
          world, risk, intents, proposals, decisions, actuation,
          audit_entries, result, last_ok_tick, pre, failed_since_ok,
          handed>>

kernel_locals == <<frame, world, risk, intents, proposals, decisions,
                   actuation, audit_entries, handed>>

\* ------------------------------------------------------------------
\* Bounds
\* ------------------------------------------------------------------
MaxTicks == 2

\* ------------------------------------------------------------------
\* Small helpers
\* ------------------------------------------------------------------
Max(a, b) == IF a >= b THEN a ELSE b

Min(a, b) == IF a <= b THEN a ELSE b

\* dict.get(key, default) on a function whose domain is a set of strings
Get(d, k, dflt) == IF k \in DOMAIN d THEN d[k] ELSE dflt

\* round(n / d) for d > 0 and n >= 0, ties to even (Python's round)
RoundDiv(n, d) ==
    LET q == n \div d
        r == n % d
    IN  IF 2 * r < d THEN q
        ELSE IF 2 * r > d THEN q + 1
        ELSE IF q % 2 = 0 THEN q ELSE q + 1

SeqFilter(s, P(_)) ==
    LET F[i \in 0..Len(s)] ==
            IF i = 0 THEN <<>>
            ELSE IF P(s[i]) THEN Append(F[i - 1], s[i]) ELSE F[i - 1]
    IN  F[Len(s)]

SeqCount(s, P(_)) == Len(SeqFilter(s, P))

\* uuid4(): a fresh identifier, named after the tick, the call site and the
\* number of the draw at that site
Uuid(t, site, k) == <<t, site, k>>

\* time.time(): the k-th reading of tick t (0 by the sensor, 1..6 by
\* _audit); readings are numbered, so time is strictly increasing
Now(t, k) == 7 * (t - 1) + k + 1

\* ------------------------------------------------------------------
\* Enumerations and configuration
\* ------------------------------------------------------------------
RiskLevel == {"STABLE", "ELEVATED", "HIGH", "CRITICAL"}

ProposalStatus == {"PENDING", "AUTO_APPROVED", "REQUIRES_HUMAN", "BLOCKED"}

\* a RiskLevel member, as opposed to a bare string carrying the same text
Enum(name) == <<"RiskLevel", name>>

GovernanceConfig(ma, hb, rh, go) ==
    [max_auto_risk |-> ma, hard_block_risk |-> hb,
     require_human_for |-> rh, gate_open |-> go]

DefaultConfig == GovernanceConfig(400, 800, {"RETREAT", "EMERGENCY"}, FALSE)

\* the configuration of the CLI harness
DemoConfig == GovernanceConfig(450, 850, {"RETREAT", "EMERGENCY"}, TRUE)

\* configurations an operator may supply; the dataclass accepts any values,
\* including a hard-block floor below the auto ceiling and a hard-block
\* floor of 120.0
Configs ==
    { DefaultConfig,
      DemoConfig,
      GovernanceConfig(900, 300, {"CONTINUE"}, TRUE),
      GovernanceConfig(400, 1200, {}, TRUE) }

\* ------------------------------------------------------------------
\* Sensor readings (SensorAdapter.read): named streams of one frame
\* ------------------------------------------------------------------
Ops(l, e, c) == [system_load |-> l, env_stress |-> e, comms_quality |-> c]

StreamSamples ==
    { [ops |-> Ops(600, 500, 840)],     \* score 45.0, ELEVATED
      [ops |-> Ops(1000, 1000, 400)],   \* score 90.0, CRITICAL
      [ops |-> Ops(0, 4, 8)] }          \* score 24.96, reported as 25.0

SensorFrame(t, ts, streams) == [tick |-> t, ts |-> ts, streams |-> streams]

\* ------------------------------------------------------------------
\* Default stage modules
\* ------------------------------------------------------------------
DefaultPerceptionModule_run(f, pw) ==
    LET ops == Get(f.streams, "ops", <<>>)
        health ==
            [compute |-> Max(0, 1000 - Get(ops, "system_load", 500)),
             environment |-> Max(0, 1000 - Get(ops, "env_stress", 500)),
             comms |-> Get(ops, "comms_quality", 800)]
    IN  [tick |-> f.tick, ts |-> f.ts,
         facts |-> [raw_ops |-> ops, alerts |-> <<>>],
         health |-> health]

\* the blend of line 259, clamped by line 260, in thousandths of a point
RiskBlend(h) ==
    LET compute_r == 1000 - Get(h, "compute", 800)
        env_r == 1000 - Get(h, "environment", 800)
        comms_r == 1000 - Get(h, "comms", 800)
    IN  Max(0, Min(100000, 35 * compute_r + 40 * env_r + 25 * comms_r))

RiskLevelOf(score) ==
    IF score < 25000 THEN "STABLE"
    ELSE IF score < 50000 THEN "ELEVATED"
    ELSE IF score < 75000 THEN "HIGH"
    ELSE "CRITICAL"

DefaultRiskModule_run(w) ==
    LET h == w.health
        score == RiskBlend(h)
        clarity == Max(300000, 1000000 - 6 * score)
    IN  [tick |-> w.tick, ts |-> w.ts,
         score |-> RoundDiv(score, 100),
         level |-> Enum(RiskLevelOf(score)),
         clarity |-> RoundDiv(clarity, 1000),
         drivers |-> [compute |-> 1000 - Get(h, "compute", 800),
                      environment |-> 1000 - Get(h, "environment", 800),
                      comms |-> 1000 - Get(h, "comms", 800)],
         notes |-> "synthetic risk blend"]

Intent(id, kind, priority) == [id |-> id, kind |-> kind, priority |-> priority]

\* list.sort(key=priority, reverse=True): stable, descending
RECURSIVE SortByPriorityDesc(_)
SortByPriorityDesc(s) ==
    IF s = <<>> THEN <<>>
    ELSE LET rest == SortByPriorityDesc(Tail(s))
             x == Head(s)
             \* x goes before the first element of strictly lower priority
             \* and, being earlier in the input, before its equals
             before == SeqFilter(rest, LAMBDA y : y.priority > x.priority)
             after == SeqFilter(rest, LAMBDA y : y.priority <= x.priority)
         IN  before \o <<x>> \o after

\* ids are drawn in the order of the three appends
DefaultPolicyModule_run(w, r) ==
    LET n == w.tick
        base == <<Intent(Uuid(n, "intent", 1), "CONTINUE", 10)>>
        slow == IF r.level \in {Enum("HIGH"), Enum("CRITICAL")}
                THEN <<Intent(Uuid(n, "intent", 2), "SLOW_ROLL", 50)>>
                ELSE <<>>
        emer == IF r.level = Enum("CRITICAL")
                THEN <<Intent(Uuid(n, "intent", 2 + Len(slow)),
                             "EMERGENCY", 90)>>
                ELSE <<>>
    IN  SortByPriorityDesc(base \o slow \o emer)

ProposalAction(kind) ==
    IF kind = "CONTINUE" THEN "Maintain current profile"
    ELSE IF kind = "SLOW_ROLL" THEN "Reduce operational rate"
    ELSE IF kind = "EMERGENCY" THEN "Enter safe hold"
    ELSE "Custom intent"

DefaultProposalModule_run(ins, w, r) ==
    [i \in 1..Len(ins) |->
        [id |-> Uuid(w.tick, "proposal", i),
         tick |-> w.tick,
         source_intent |-> ins[i].kind,
         action |-> ProposalAction(ins[i].kind),
         status |-> "PENDING",
         governance_notes |-> ""]]

\* ------------------------------------------------------------------
\* Governance gate and default actuation
\* ------------------------------------------------------------------
\* GateStatus without the test of the score against max_auto_risk
GateStatus_NoCeiling(score, cfg, kind) ==
    IF score >= cfg.hard_block_risk THEN "BLOCKED"
    ELSE IF ~cfg.gate_open THEN "REQUIRES_HUMAN"
    ELSE IF kind \in cfg.require_human_for THEN "REQUIRES_HUMAN"
    ELSE "AUTO_APPROVED"

\* GateStatus with the gate switch tested before the hard block
GateStatus_GateFirst(score, cfg, kind) ==
    IF ~cfg.gate_open THEN "REQUIRES_HUMAN"
    ELSE IF score >= cfg.hard_block_risk THEN "BLOCKED"
    ELSE IF score > cfg.max_auto_risk \/ kind \in cfg.require_human_for
         THEN "REQUIRES_HUMAN"
    ELSE "AUTO_APPROVED"

\* GateStatus without the gate switch branch
GateStatus_NoGate(score, cfg, kind) ==
    IF score >= cfg.hard_block_risk THEN "BLOCKED"
    ELSE IF score > cfg.max_auto_risk \/ kind \in cfg.require_human_for
         THEN "REQUIRES_HUMAN"
    ELSE "AUTO_APPROVED"

\* GateStatus without the forced-review test of line 387
GateStatus_NoForced(score, cfg, kind) ==
    IF score >= cfg.hard_block_risk THEN "BLOCKED"
    ELSE IF ~cfg.gate_open THEN "REQUIRES_HUMAN"
    ELSE IF score > cfg.max_auto_risk THEN "REQUIRES_HUMAN"
    ELSE "AUTO_APPROVED"

\* GateStatus with >= for > on line 386
GateStatus_GeCeiling(score, cfg, kind) ==
    IF score >= cfg.hard_block_risk THEN "BLOCKED"
    ELSE IF ~cfg.gate_open THEN "REQUIRES_HUMAN"
    ELSE IF score >= cfg.max_auto_risk \/ kind \in cfg.require_human_for
         THEN "REQUIRES_HUMAN"
    ELSE "AUTO_APPROVED"

\* the if/elif chain of lines 380-392: status for one proposal
GateStatus(score, cfg, kind) ==
    IF score >= cfg.hard_block_risk THEN "BLOCKED"
    ELSE IF ~cfg.gate_open THEN "REQUIRES_HUMAN"
    ELSE IF score > cfg.max_auto_risk \/ kind \in cfg.require_human_for
         THEN "REQUIRES_HUMAN"
    ELSE "AUTO_APPROVED"

\* the comment set next to the status; f-string fields kept as a tuple
GateComment(score, cfg, kind) ==
    IF score >= cfg.hard_block_risk
        THEN <<"Blocked: risk", score, ">= hard stop">>
    ELSE IF ~cfg.gate_open
        THEN <<"Gate closed; human review required">>
    ELSE IF score > cfg.max_auto_risk \/ kind \in cfg.require_human_for
        THEN <<"Risk", score, "or intent", kind, "above auto threshold">>
    ELSE <<"Within auto-go envelope">>

GateOperator(status) == IF status = "AUTO_APPROVED" THEN "AUTO" ELSE "HUMAN?"

\* GovernanceDecisions with a loop that skips blocked proposals
GovernanceDecisions_SkipBlocked(ps, w, r, cfg) ==
    LET kept == SeqFilter(ps, LAMBDA q :
                    GateStatus(r.score, cfg, q.source_intent) # "BLOCKED")
    IN  [i \in 1..Len(kept) |->
            LET status == GateStatus(r.score, cfg, kept[i].source_intent)
            IN  [id |-> Uuid(w.tick, "decision", i),
                 proposal_id |-> kept[i].id,
                 tick |-> kept[i].tick,
                 status |-> status,
                 operator |-> GateOperator(status),
                 comment |->
                     GateComment(r.score, cfg, kept[i].source_intent)]]

\* decisions appended by the loop of lines 376-406, one per proposal
GovernanceDecisions(ps, w, r, cfg) ==
    [i \in 1..Len(ps) |->
        LET status == GateStatus(r.score, cfg, ps[i].source_intent)
        IN  [id |-> Uuid(w.tick, "decision", i),
             proposal_id |-> ps[i].id,
             tick |-> ps[i].tick,
             status |-> status,
             operator |-> GateOperator(status),
             comment |-> GateComment(r.score, cfg, ps[i].source_intent)]]

\* GovernanceWriteBack that writes the notes but leaves the status
GovernanceWriteBack_NotesOnly(ps, r, cfg) ==
    [i \in 1..Len(ps) |->
        [ps[i] EXCEPT
            !.governance_notes =
                GateComment(r.score, cfg, ps[i].source_intent)]]

\* the write-back of lines 394-395 onto the proposal objects
GovernanceWriteBack(ps, r, cfg) ==
    [i \in 1..Len(ps) |->
        [ps[i] EXCEPT
            !.status = GateStatus(r.score, cfg, ps[i].source_intent),
            !.governance_notes =
                GateComment(r.score, cfg, ps[i].source_intent)]]

DefaultGovernanceModule_run(ps, w, r, cfg) ==
    [proposals |-> GovernanceWriteBack(ps, r, cfg),
     decisions |-> GovernanceDecisions(ps, w, r, cfg)]

\* Actuated with a test that lets through everything but blocked decisions
Actuated_NotBlocked(ds) == SeqFilter(ds, LAMBDA d : d.status # "BLOCKED")

\* line 415: the decisions that get a command
Actuated(ds) == SeqFilter(ds, LAMBDA d : d.status = "AUTO_APPROVED")

DefaultActuationModule_run(ds, w) ==
    LET approved == Actuated(ds)
    IN  [k \in 1..Len(approved) |->
            [id |-> Uuid(w.tick, "command", k),
             tick |-> approved[k].tick,
             channel |-> "core",
             payload |-> [decision_id |-> approved[k].id,
                          proposal_id |-> approved[k].proposal_id,
                          mode |-> "EXECUTE"]]]

\* ------------------------------------------------------------------
\* Audit ledger
\* ------------------------------------------------------------------
\* every key json.dumps can meet in a hashed dict, in sorted order
SortedKeys == <<"id", "kind", "payload", "prev_hash", "tick", "ts">>

\* json.dumps(data, sort_keys=True): the key/value pairs in key order
JsonDumps(data) ==
    LET keys == SeqFilter(SortedKeys, LAMBDA k : k \in DOMAIN data)
    IN  [i \in 1..Len(keys) |-> <<keys[i], data[keys[i]]>>]

\* a digest is identified with the text it was computed from (SHA-256 taken
\* as collision-free)
sha256(data) == <<"sha256", JsonDumps(data)>>

\* "0" * 64
GenesisHash == [i \in 1..64 |-> "0"]

\* AuditRaw that leaves the payload out of the hashed dict
AuditRaw_NoPayload(id, t, ts, kind, payload, ph) ==
    [id |-> id, tick |-> t, ts |-> ts, kind |-> kind, prev_hash |-> ph]

AuditRaw(id, t, ts, kind, payload, ph) ==
    [id |-> id, tick |-> t, ts |-> ts, kind |-> kind, payload |-> payload,
     prev_hash |-> ph]

\* the entry built by _audit from the kernel's tick_id and prev_hash
AuditEntry(id, t, ts, kind, payload, ph) ==
    [id |-> id, tick |-> t, ts |-> ts, kind |-> kind, payload |-> payload,
     prev_hash |-> ph,
     hash |-> sha256(AuditRaw(id, t, ts, kind, payload, ph))]

\* _audit that returns the entry without appending it to the chain
AutonomyKernel_audit_NoAppend(self, kind, payload, k) ==
    LET e == AuditEntry(Uuid(self.tick_id, "audit", k), self.tick_id,
                        Now(self.tick_id, k), kind, payload, self.prev_hash)
    IN  [self EXCEPT !.prev_hash = e.hash,
                     !.out = Append(@, e)]

\* _audit that leaves self.prev_hash as it was
AutonomyKernel_audit_KeepPrevHash(self, kind, payload, k) ==
    LET e == AuditEntry(Uuid(self.tick_id, "audit", k), self.tick_id,
                        Now(self.tick_id, k), kind, payload, self.prev_hash)
    IN  [self EXCEPT !.audit_chain = Append(@, e),
                     !.out = Append(@, e)]

\* _audit that puts the new entry at the head of the chain
AutonomyKernel_audit_Prepend(self, kind, payload, k) ==
    LET e == AuditEntry(Uuid(self.tick_id, "audit", k), self.tick_id,
                        Now(self.tick_id, k), kind, payload, self.prev_hash)
    IN  [self EXCEPT !.audit_chain = <<e>> \o @,
                     !.prev_hash = e.hash,
                     !.out = Append(@, e)]

\* _audit(kind, payload), the k-th audit call of the tick; self carries the
\* kernel fields it reads and writes, self.out the entries returned so far
AutonomyKernel_audit(self, kind, payload, k) ==
    LET e == AuditEntry(Uuid(self.tick_id, "audit", k), self.tick_id,
                        Now(self.tick_id, k), kind, payload, self.prev_hash)
    IN  [self EXCEPT !.prev_hash = e.hash,
                     !.audit_chain = Append(@, e),
                     !.out = Append(@, e)]

\* the six audit calls of step(), in order
AuditKinds ==
    <<"frame", "risk", "intents", "proposals", "decisions", "actuation">>

\* len() of a value a port returned: defined on a list only
IsList(v) == v[1] = "list"

\* .name of risk.level: defined on an enum member only
HasName(level) == level[1] = "RiskLevel"

\* the payload expression of the k-th audit call; loc holds step()'s locals
AuditPayload(k, loc) ==
    CASE k = 1 -> [streams |-> loc.frame.streams]
      [] k = 2 -> [score |-> loc.risk.score, level |-> loc.risk.level[2]]
      [] k = 3 -> [count |-> Len(loc.intents)]
      [] k = 4 -> [count |-> Len(loc.proposals)]
      [] k = 5 -> [count |-> Len(loc.decisions)]
      [] k = 6 -> [count |-> Len(loc.actuation[2])]

\* the first audit call whose payload expression raises, 0 if none does:
\* risk.level.name on a level without a name, len() of a non-list
FirstAuditRaise(loc) ==
    IF ~HasName(loc.risk.level) THEN 2
    ELSE IF ~IsList(loc.actuation) THEN 6
    ELSE 0

\* the audit calls k..n of the list of lines 503-510, in order
RECURSIVE AuditCalls(_, _, _, _)
AuditCalls(self, k, n, loc) ==
    IF k > n THEN self
    ELSE AuditCalls(AutonomyKernel_audit(self, AuditKinds[k],
                                         AuditPayload(k, loc), k),
                    k + 1, n, loc)

\* ------------------------------------------------------------------
\* Kernel
\* ------------------------------------------------------------------
NoResult == [status |-> "none", snapshot |-> <<>>]

Failure == [status |-> "error", snapshot |-> <<>>]

TickResult(t, f, w, r, ins, ps, ds, act, aes) ==
    [tick |-> t, sensor_frame |-> f, world |-> w, risk |-> r,
     intents |-> ins, proposals |-> ps, decisions |-> ds,
     actuation |-> act, audit_entries |-> aes]

\* AutonomyKernel.__init__
Init ==
    /\ gov_cfg \in Configs
    /\ tick_id = 0
    /\ prev_world = <<>>
    /\ audit_chain = <<>>
    /\ prev_hash = GenesisHash
    /\ pc = "idle"
    /\ frame = <<>>
    /\ world = <<>>
    /\ risk = <<>>
    /\ intents = <<>>
    /\ proposals = <<>>
    /\ decisions = <<>>
    /\ actuation = <<"list", <<>>>>
    /\ audit_entries = <<>>
    /\ result = NoResult
    /\ last_ok_tick = 0
    /\ pre = [audit_chain |-> <<>>, prev_world |-> <<>>,
              prev_hash |-> GenesisHash, tick_id |-> 0, last_ok_tick |-> 0]
    /\ failed_since_ok = 0
    /\ handed = <<>>

ClearLocals ==
    /\ frame' = <<>>
    /\ world' = <<>>
    /\ risk' = <<>>
    /\ intents' = <<>>
    /\ proposals' = <<>>
    /\ decisions' = <<>>
    /\ actuation' = <<"list", <<>>>>
    /\ audit_entries' = <<>>
    /\ handed' = <<>>

\* an exception leaves step(): the locals are dropped, the caller sees it
Propagate ==
    /\ pc' = "idle"
    /\ result' = Failure
    /\ failed_since_ok' = failed_since_ok + 1
    /\ ClearLocals

\* the operator replaces the configuration between two ticks
ReplaceConfig ==
    /\ pc = "idle"
    /\ \E c \in Configs : c # gov_cfg /\ gov_cfg' = c
    /\ UNCHANGED <<tick_id, prev_world, audit_chain, prev_hash, kernel_locals,
                   pc, result, last_ok_tick, pre, failed_since_ok>>

\* NextTickId that leaves the counter as it was
NextTickId_Stay(t) == t

\* NextTickId that advances the counter twice
NextTickId_Twice(t) == t + 2

\* self.tick_id += 1
NextTickId(t) == t + 1

\* line 492
StepBegin ==
    /\ pc = "idle"
    /\ tick_id < MaxTicks
    /\ tick_id' = NextTickId(tick_id)
    /\ pc' = "sensor"
    /\ pre' = [audit_chain |-> audit_chain, prev_world |-> prev_world,
               prev_hash |-> prev_hash, tick_id |-> tick_id,
               last_ok_tick |-> last_ok_tick]
    /\ UNCHANGED <<prev_world, audit_chain, prev_hash, gov_cfg, kernel_locals,
                   result, last_ok_tick, failed_since_ok>>

\* line 494
SensorRead ==
    /\ pc = "sensor"
    /\ \E s \in StreamSamples :
          frame' = <<SensorFrame(tick_id, Now(tick_id, 0), s)>>
    /\ handed' = Append(handed, prev_world)
    /\ pc' = "perception"
    /\ UNCHANGED <<tick_id, prev_world, audit_chain, prev_hash, gov_cfg,
                   world, risk, intents, proposals, decisions, actuation,
                   audit_entries, result, last_ok_tick, pre, failed_since_ok>>

\* line 495
PerceptionRun ==
    /\ pc = "perception"
    /\ world' = <<DefaultPerceptionModule_run(frame[1], prev_world)>>
    /\ handed' = Append(handed, prev_world)
    /\ pc' = "risk"
    /\ UNCHANGED <<tick_id, prev_world, audit_chain, prev_hash, gov_cfg,
                   frame, risk, intents, proposals, decisions, actuation,
                   audit_entries, result, last_ok_tick, pre, failed_since_ok>>

\* line 496
RiskRun ==
    /\ pc = "risk"
    /\ risk' = <<DefaultRiskModule_run(world[1])>>
    /\ pc' = "policy"
    /\ UNCHANGED <<tick_id, prev_world, audit_chain, prev_hash, gov_cfg,
                   frame, world, intents, proposals, decisions, actuation,
                   audit_entries, result, last_ok_tick, pre, failed_since_ok,
                   handed>>

\* line 496 with a risk port that breaks its contract: the level of the
\* report is the level's text, not a RiskLevel member
RiskRunBareLevel ==
    /\ pc = "risk"
    /\ LET r == DefaultRiskModule_run(world[1])
       IN  risk' = <<[r EXCEPT !.level = <<"str", r.level[2]>>]>>
    /\ pc' = "policy"
    /\ UNCHANGED <<tick_id, prev_world, audit_chain, prev_hash, gov_cfg,
                   frame, world, intents, proposals, decisions, actuation,
                   audit_entries, result, last_ok_tick, pre, failed_since_ok,
                   handed>>

\* line 497
PolicyRun ==
    /\ pc = "policy"
    /\ intents' = DefaultPolicyModule_run(world[1], risk[1])
    /\ pc' = "proposal"
    /\ UNCHANGED <<tick_id, prev_world, audit_chain, prev_hash, gov_cfg,
                   frame, world, risk, proposals, decisions, actuation,
                   audit_entries, result, last_ok_tick, pre, failed_since_ok,
                   handed>>

\* intents a plugged-in PolicyModule may return instead
CustomIntents(t) ==
    { <<>>,
      <<Intent(Uuid(t, "intent", 1), "RETREAT", 70),
        Intent(Uuid(t, "intent", 2), "CONTINUE", 10)>> }

\* line 497 with a plugged-in policy
PolicyRunCustom ==
    /\ pc = "policy"
    /\ \E ins \in CustomIntents(tick_id) : intents' = ins
    /\ pc' = "proposal"
    /\ UNCHANGED <<tick_id, prev_world, audit_chain, prev_hash, gov_cfg,
                   frame, world, risk, proposals, decisions, actuation,
                   audit_entries, result, last_ok_tick, pre, failed_since_ok,
                   handed>>

\* line 498
ProposalRun ==
    /\ pc = "proposal"
    /\ proposals' =
          DefaultProposalModule_run(intents, world[1], risk[1])
    /\ pc' = "governance"
    /\ UNCHANGED <<tick_id, prev_world, audit_chain, prev_hash, gov_cfg,
                   frame, world, risk, intents, decisions, actuation,
                   audit_entries, result, last_ok_tick, pre, failed_since_ok,
                   handed>>

\* GovernanceRun that goes on to the audit commit, leaving actuation out
GovernanceRun_SkipActuation ==
    /\ pc = "governance"
    /\ LET out == DefaultGovernanceModule_run(proposals, world[1], risk[1],
                                              gov_cfg)
       IN  /\ proposals' = out.proposals
           /\ decisions' = out.decisions
    /\ pc' = "audit"
    /\ UNCHANGED <<tick_id, prev_world, audit_chain, prev_hash, gov_cfg,
                   frame, world, risk, intents, actuation, audit_entries,
                   result, last_ok_tick, pre, failed_since_ok,
                   handed>>

\* line 499
GovernanceRun ==
    /\ pc = "governance"
    /\ LET out == DefaultGovernanceModule_run(proposals, world[1], risk[1],
                                              gov_cfg)
       IN  /\ proposals' = out.proposals
           /\ decisions' = out.decisions
    /\ pc' = "actuation"
    /\ UNCHANGED <<tick_id, prev_world, audit_chain, prev_hash, gov_cfg,
                   frame, world, risk, intents, actuation, audit_entries,
                   result, last_ok_tick, pre, failed_since_ok,
                   handed>>

\* line 500
ActuationRun ==
    /\ pc = "actuation"
    /\ actuation' = <<"list", DefaultActuationModule_run(decisions, world[1])>>
    /\ pc' = "audit"
    /\ UNCHANGED <<tick_id, prev_world, audit_chain, prev_hash, gov_cfg,
                   frame, world, risk, intents, proposals, decisions,
                   audit_entries, result, last_ok_tick, pre, failed_since_ok,
                   handed>>

\* line 500 with an actuation port that breaks its contract: it returns
\* None instead of a list
ActuationRunNone ==
    /\ pc = "actuation"
    /\ actuation' = <<"None">>
    /\ pc' = "audit"
    /\ UNCHANGED <<tick_id, prev_world, audit_chain, prev_hash, gov_cfg,
                   frame, world, risk, intents, proposals, decisions,
                   audit_entries, result, last_ok_tick, pre, failed_since_ok,
                   handed>>

Stages ==
    {"sensor", "perception", "risk", "policy", "proposal", "governance",
     "actuation"}

\* lines 494-500: the stage port about to run raises
StageRaises ==
    /\ pc \in Stages
    /\ Propagate
    /\ UNCHANGED <<tick_id, prev_world, audit_chain, prev_hash, gov_cfg,
                   last_ok_tick, pre>>

Self == [tick_id |-> tick_id, prev_hash |-> prev_hash,
         audit_chain |-> audit_chain, out |-> <<>>]

Locals == [frame |-> frame[1], risk |-> risk[1], intents |-> intents,
           proposals |-> proposals, decisions |-> decisions,
           actuation |-> actuation]

\* lines 503-510: the six _audit calls, none of which raises
AuditCommit ==
    /\ pc = "audit"
    /\ FirstAuditRaise(Locals) = 0
    /\ LET after == AuditCalls(Self, 1, 6, Locals)
       IN  /\ prev_hash' = after.prev_hash
           /\ audit_chain' = after.audit_chain
           /\ audit_entries' = after.out
    /\ pc' = "commit"
    /\ UNCHANGED <<tick_id, prev_world, gov_cfg, frame, world, risk,
                   intents, proposals, decisions, actuation, result,
                   last_ok_tick, pre, failed_since_ok,
                   handed>>

\* lines 503-510: the payload expression of one of the calls raises; the
\* calls before it have run
AuditRaises ==
    /\ pc = "audit"
    /\ FirstAuditRaise(Locals) # 0
    /\ LET after == AuditCalls(Self, 1, FirstAuditRaise(Locals) - 1, Locals)
       IN  /\ prev_hash' = after.prev_hash
           /\ audit_chain' = after.audit_chain
    /\ Propagate
    /\ UNCHANGED <<tick_id, prev_world, gov_cfg, last_ok_tick, pre>>

\* CommitWorld that keeps the world state held before the call
CommitWorld_Keep ==
    /\ pc = "commit"
    /\ pc' = "return"
    /\ UNCHANGED <<tick_id, prev_world, audit_chain, prev_hash, gov_cfg,
                   kernel_locals, result, last_ok_tick, pre,
                   failed_since_ok>>

\* line 512
CommitWorld ==
    /\ pc = "commit"
    /\ prev_world' = world
    /\ pc' = "return"
    /\ UNCHANGED <<tick_id, audit_chain, prev_hash, gov_cfg, kernel_locals,
                   result, last_ok_tick, pre, failed_since_ok>>

\* lines 514-524
Return ==
    /\ pc = "return"
    /\ result' = [status |-> "ok",
                  snapshot |-> <<TickResult(tick_id, frame[1], world[1],
                                            risk[1], intents, proposals,
                                            decisions, actuation[2],
                                            audit_entries)>>]
    /\ last_ok_tick' = tick_id
    /\ pc' = "idle"
    /\ failed_since_ok' = 0
    /\ ClearLocals
    /\ UNCHANGED <<tick_id, prev_world, audit_chain, prev_hash, gov_cfg,
                   pre>>

Next ==
    \/ ReplaceConfig
    \/ StepBegin
    \/ SensorRead
    \/ PerceptionRun
    \/ RiskRun
    \/ RiskRunBareLevel
    \/ PolicyRun
    \/ PolicyRunCustom
    \/ ProposalRun
    \/ GovernanceRun
    \/ ActuationRun
    \/ ActuationRunNone
    \/ StageRaises
    \/ AuditCommit
    \/ AuditRaises
    \/ CommitWorld
    \/ Return

Spec == Init /\ [][Next]_vars

\* ------------------------------------------------------------------
\* Properties
\* ------------------------------------------------------------------
\* governance has run in the current call: decisions holds its output
AfterGovernance == pc \in {"actuation", "audit", "commit", "return"}

\* the default actuation module has run in the current call
AfterActuation == pc \in {"audit", "commit", "return"} /\ IsList(actuation)

Score == risk[1].score

\* C1: whenever the tick's risk score is at or above hard_block_risk, every
\* proposal of the tick has a decision with status BLOCKED, whatever the
\* gate switch, the auto ceiling, the forced-review set and the intent kind
\* are, and the default actuation module emits no command in that tick.
HardBlockPrecedence ==
    (AfterGovernance /\ Score >= gov_cfg.hard_block_risk) =>
        /\ \A i \in DOMAIN proposals :
              /\ i \in DOMAIN decisions
              /\ decisions[i].proposal_id = proposals[i].id
              /\ decisions[i].status = "BLOCKED"
        /\ AfterActuation => actuation[2] = <<>>

\* C1 witness: a tick with a closed gate and with proposals of a kind in and
\* of a kind outside the forced-review set, all blocked, about to return
HardBlockSeen ==
    /\ pc = "return"
    /\ Score >= gov_cfg.hard_block_risk
    /\ ~gov_cfg.gate_open
    /\ Score > gov_cfg.max_auto_risk
    /\ \E i, j \in DOMAIN proposals :
          /\ proposals[i].source_intent \in gov_cfg.require_human_for
          /\ proposals[j].source_intent \notin gov_cfg.require_human_for
          /\ decisions[i].status = "BLOCKED"
          /\ decisions[j].status = "BLOCKED"
    /\ actuation = <<"list", <<>>>>

\* C2: whenever the gate is closed and the risk score is below
\* hard_block_risk, every proposal's decision is REQUIRES_HUMAN; and a tick
\* run under the default configuration has no AUTO_APPROVED decision and
\* no actuation command.
GateClosedPrecedence ==
    AfterGovernance =>
        /\ (~gov_cfg.gate_open /\ Score < gov_cfg.hard_block_risk) =>
              \A i \in DOMAIN proposals :
                  /\ i \in DOMAIN decisions
                  /\ decisions[i].status = "REQUIRES_HUMAN"
        /\ gov_cfg = DefaultConfig =>
              /\ \A i \in DOMAIN decisions :
                    decisions[i].status # "AUTO_APPROVED"
              /\ AfterActuation => actuation[2] = <<>>

\* C2 witness: a low-risk tick under the default configuration whose
\* proposal of a kind outside the forced set is held for a human
GateClosedSeen ==
    /\ pc = "return"
    /\ gov_cfg = DefaultConfig
    /\ Score <= gov_cfg.max_auto_risk
    /\ \E i \in DOMAIN proposals :
          /\ proposals[i].source_intent \notin gov_cfg.require_human_for
          /\ decisions[i].status = "REQUIRES_HUMAN"
    /\ actuation = <<"list", <<>>>>

\* C3: with the gate open and the risk score below hard_block_risk, every
\* proposal whose source intent kind is in require_human_for gets
\* REQUIRES_HUMAN, also when the score is at or below max_auto_risk.
ForcedReview ==
    (AfterGovernance /\ gov_cfg.gate_open
        /\ Score < gov_cfg.hard_block_risk) =>
        \A i \in DOMAIN proposals :
            proposals[i].source_intent \in gov_cfg.require_human_for =>
                /\ i \in DOMAIN decisions
                /\ decisions[i].status = "REQUIRES_HUMAN"

\* C3 witness: an open gate, a score within the auto ceiling, a RETREAT
\* proposal held for a human next to an approved one
ForcedReviewSeen ==
    /\ pc = "return"
    /\ gov_cfg.gate_open
    /\ Score < gov_cfg.hard_block_risk
    /\ Score <= gov_cfg.max_auto_risk
    /\ \E i, j \in DOMAIN proposals :
          /\ proposals[i].source_intent = "RETREAT"
          /\ "RETREAT" \in gov_cfg.require_human_for
          /\ decisions[i].status = "REQUIRES_HUMAN"
          /\ decisions[j].status = "AUTO_APPROVED"

\* the commands of the tick that reference decision d
CommandsFor(d) ==
    {k \in DOMAIN actuation[2] : actuation[2][k].payload.decision_id = d.id}

\* C4: with the gate open, the score at or below max_auto_risk and below
\* hard_block_risk, every proposal whose kind is outside require_human_for
\* is AUTO_APPROVED, and the default actuation output holds exactly one
\* command for its decision, naming the decision and the proposal, with
\* mode EXECUTE.
AutoPath ==
    (AfterGovernance /\ gov_cfg.gate_open
        /\ Score <= gov_cfg.max_auto_risk
        /\ Score < gov_cfg.hard_block_risk) =>
        \A i \in DOMAIN proposals :
            proposals[i].source_intent \notin gov_cfg.require_human_for =>
                /\ i \in DOMAIN decisions
                /\ decisions[i].proposal_id = proposals[i].id
                /\ decisions[i].status = "AUTO_APPROVED"
                /\ AfterActuation =>
                      /\ Cardinality(CommandsFor(decisions[i])) = 1
                      /\ \A k \in CommandsFor(decisions[i]) :
                            /\ actuation[2][k].payload.proposal_id =
                                  proposals[i].id
                            /\ actuation[2][k].payload.mode = "EXECUTE"

\* C4 witness: a tick whose score equals the auto ceiling and whose
\* CONTINUE proposal is approved and actuated
AutoPathSeen ==
    /\ pc = "return"
    /\ gov_cfg.gate_open
    /\ Score = gov_cfg.max_auto_risk
    /\ Score < gov_cfg.hard_block_risk
    /\ \E i \in DOMAIN proposals :
          /\ proposals[i].source_intent = "CONTINUE"
          /\ decisions[i].status = "AUTO_APPROVED"
          /\ Cardinality(CommandsFor(decisions[i])) = 1

\* the snapshot of the last call, when that call succeeded
Returned == result.status = "ok"

Snapshot == result.snapshot[1]

\* C5: in every returned snapshot there are as many decisions as proposals,
\* the i-th decision names the i-th proposal and carries its tick id, and
\* every proposal is named by exactly one decision.
OneDecisionPerProposal ==
    Returned =>
        LET ps == Snapshot.proposals
            ds == Snapshot.decisions
        IN  /\ Len(ds) = Len(ps)
            /\ \A i \in DOMAIN ps :
                  /\ ds[i].proposal_id = ps[i].id
                  /\ ds[i].tick = ps[i].tick
                  /\ Cardinality({j \in DOMAIN ds :
                                     ds[j].proposal_id = ps[i].id}) = 1

\* C5 witness: a returned snapshot with three proposals, all blocked
ThreeDecisionsSeen ==
    /\ Returned
    /\ Len(Snapshot.proposals) = 3
    /\ Len(Snapshot.decisions) = 3
    /\ \A i \in 1..3 : Snapshot.decisions[i].status = "BLOCKED"

\* C6: in every returned snapshot each command names a decision of the
\* snapshot whose status is AUTO_APPROVED, and there are as many commands as
\* AUTO_APPROVED decisions.
ActuationOnlyApproved ==
    Returned =>
        LET ds == Snapshot.decisions
            cmds == Snapshot.actuation
        IN  /\ \A k \in DOMAIN cmds :
                  \E j \in DOMAIN ds :
                      /\ ds[j].id = cmds[k].payload.decision_id
                      /\ ds[j].status = "AUTO_APPROVED"
            /\ Len(cmds) =
                  SeqCount(ds, LAMBDA d : d.status = "AUTO_APPROVED")

\* C6 witness: a returned snapshot with one approved decision, one decision
\* held for a human, and a single command
MixedActuationSeen ==
    /\ Returned
    /\ Len(Snapshot.actuation) = 1
    /\ \E i, j \in DOMAIN Snapshot.decisions :
          /\ Snapshot.decisions[i].status = "AUTO_APPROVED"
          /\ Snapshot.decisions[j].status = "REQUIRES_HUMAN"


\* C7 as stated: the tick id a successful call returns is one greater than
\* the tick id the previous successful call returned (1 for the first).
TickIdFollowsLastSuccess ==
    pc = "return" => tick_id = last_ok_tick + 1

\* C7 amended: the tick id a successful call returns is one greater than
\* the tick id the previous successful call returned plus the number of
\* failed calls made since then (since construction for the first).
TickIdCountsFailedCalls ==
    pc = "return" => tick_id = last_ok_tick + failed_since_ok + 1

\* C7 witness: a call about to return after the call before it failed
ReturnAfterFailureSeen ==
    /\ pc = "return"
    /\ failed_since_ok = 1
    /\ tick_id = 2

\* C8: after a call that failed, the ledger, the chain head and the held
\* previous world state are what they were before the call, no ledger entry
\* carries the failed tick's id, and the tick counter has advanced by one.
WholeTickFailure ==
    (pc = "idle" /\ result.status = "error") =>
        /\ audit_chain = pre.audit_chain
        /\ prev_hash = pre.prev_hash
        /\ prev_world = pre.prev_world
        /\ tick_id = pre.tick_id + 1
        /\ \A i \in DOMAIN audit_chain : audit_chain[i].tick # tick_id

\* C9: when a successful call for tick N has returned, the ledger is the
\* ledger from before the call followed by six new entries of kinds frame,
\* risk, intents, proposals, decisions, actuation in that order, each with
\* tick id N, and the snapshot's audit_entries are exactly these six.
SixEntriesPerTick ==
    (pc = "idle" /\ Returned) =>
        LET aes == Snapshot.audit_entries
            n == Len(audit_chain)
            kinds == <<"frame", "risk", "intents", "proposals", "decisions",
                       "actuation">>
        IN  /\ Len(aes) = 6
            /\ \A k \in 1..6 :
                  /\ aes[k].kind = kinds[k]
                  /\ aes[k].tick = Snapshot.tick
            /\ n = Len(pre.audit_chain) + 6
            /\ SubSeq(audit_chain, 1, n - 6) = pre.audit_chain
            /\ SubSeq(audit_chain, n - 5, n) = aes

\* C9 witness: tick 2 returned after tick 1 failed at its last audit call,
\* leaving five entries behind
SixAfterFiveSeen ==
    /\ pc = "idle"
    /\ Returned
    /\ Snapshot.tick = 2
    /\ Len(audit_chain) = 11
    /\ audit_chain[5].tick = 1

\* C10: at every moment every ledger entry's stored hash is the hash of its
\* id, tick, timestamp, kind, payload and previous-hash, the first entry's
\* previous-hash is the genesis sentinel of 64 characters "0", and every
\* later entry's previous-hash is the stored hash of the entry before it;
\* the kernel's chain head is the stored hash of the last entry.
LedgerIntegrity ==
    /\ \A i \in DOMAIN audit_chain :
          LET e == audit_chain[i]
          IN  /\ e.hash = sha256([id |-> e.id, tick |-> e.tick, ts |-> e.ts,
                                   kind |-> e.kind, payload |-> e.payload,
                                   prev_hash |-> e.prev_hash])
              /\ i = 1 =>
                    /\ Len(e.prev_hash) = 64
                    /\ \A c \in 1..64 : e.prev_hash[c] = "0"
              /\ i > 1 => e.prev_hash = audit_chain[i - 1].hash
    /\ audit_chain # <<>> => prev_hash = audit_chain[Len(audit_chain)].hash

\* C10 witness: a ledger holding the entry a failed tick left behind
\* followed by the six entries of a successful tick
ChainAcrossFailureSeen ==
    /\ pc = "idle"
    /\ Returned
    /\ Len(audit_chain) = 7
    /\ audit_chain[1].tick = 1
    /\ audit_chain[2].tick = 2
    /\ audit_chain[7].kind = "actuation"


\* verify(entries) of the ledger contract: every stored hash is the hash
\* recomputed from the entry's recorded fields, and every stored
\* previous-hash is the stored hash of the entry before (the genesis
\* sentinel for the first entry)
Verify(entries) ==
    \A i \in DOMAIN entries :
        LET e == entries[i]
        IN  /\ e.hash = sha256(AuditRaw(e.id, e.tick, e.ts, e.kind,
                                        e.payload, e.prev_hash))
            /\ e.prev_hash =
                  IF i = 1 THEN GenesisHash ELSE entries[i - 1].hash

\* a payload that differs from the payload of entry e
ForgedPayload(e) ==
    IF e.kind \in {"frame", "risk"} THEN [count |-> 0]
    ELSE [count |-> e.payload.count + 1]

\* digests to overwrite a stored digest of entry i with: the sentinel, the
\* hashes stored in and next to the entry, and the hash of the entry with a
\* forged payload
ForgedDigests(entries, i) ==
    LET e == entries[i]
        n == Len(entries)
    IN  {GenesisHash,
         entries[Max(1, i - 1)].hash, entries[Min(n, i + 1)].hash, e.hash,
         sha256(AuditRaw(e.id, e.tick, e.ts, e.kind, ForgedPayload(e),
                         e.prev_hash))}

\* the ledgers obtained by changing one field of entry i to another value
Tamperings(entries, i) ==
    {[entries EXCEPT ![i].payload = ForgedPayload(entries[i])]}
    \cup {[entries EXCEPT ![i].hash = h] :
             h \in ForgedDigests(entries, i) \ {entries[i].hash}}
    \cup {[entries EXCEPT ![i].prev_hash = h] :
             h \in ForgedDigests(entries, i) \ {entries[i].prev_hash}}

\* C11: between two calls, changing the payload, the stored hash or the
\* stored previous-hash of any single ledger entry to a different value
\* makes verification of the ledger fail (SHA-256 taken as collision-free).
TamperDetected ==
    pc = "idle" =>
        \A i \in DOMAIN audit_chain :
            \A t \in Tamperings(audit_chain, i) : ~Verify(t)

\* C11 witness: a ledger of two ticks that verifies, and tampered copies of
\* it (first entry's previous-hash, a middle payload, last entry's hash)
\* that do not
TamperSeen ==
    /\ pc = "idle"
    /\ Len(audit_chain) = 12
    /\ Verify(audit_chain)
    /\ ~Verify([audit_chain EXCEPT ![1].prev_hash = audit_chain[1].hash])
    /\ ~Verify([audit_chain EXCEPT ![6].payload = [count |-> 7]])
    /\ ~Verify([audit_chain EXCEPT ![12].hash = GenesisHash])
    /\ Cardinality(Tamperings(audit_chain, 6)) >= 7

\* a is an initial segment of b
IsPrefix(a, b) == Len(a) <= Len(b) /\ SubSeq(b, 1, Len(a)) = a

\* the ticks of the entries never decrease along the ledger: the entries of
\* one tick are contiguous, after those of earlier and before those of
\* later ticks
OrderedByTick(entries) ==
    \A i, j \in DOMAIN entries : i < j => entries[i].tick <= entries[j].tick

\* C12: every step of step() leaves the ledger it found as a prefix of the
\* ledger it leaves (no entry removed, reordered or rewritten), and in the
\* ledger the entries of tick N are contiguous, strictly after every entry
\* of an earlier tick and strictly before every entry of a later tick.
LedgerAppendOnly ==
    [][/\ IsPrefix(audit_chain, audit_chain')
       /\ OrderedByTick(audit_chain')
       /\ \A i \in DOMAIN audit_chain' :
             i > Len(audit_chain) => audit_chain'[i].tick = tick_id]_vars

\* C12 witness: the second call has appended its six entries to the six of
\* the first
TwoTickLedgerSeen ==
    /\ pc = "idle"
    /\ Len(pre.audit_chain) = 6
    /\ Len(audit_chain) = 12
    /\ audit_chain[6].tick = 1
    /\ audit_chain[7].tick = 2
    /\ IsPrefix(pre.audit_chain, audit_chain)


\* both thresholds of a configuration lie in [0, 100]
SaneThresholds(cfg) ==
    /\ cfg.max_auto_risk \in 0..1000
    /\ cfg.hard_block_risk \in 0..1000

\* C13: no tick evaluates the governance gate against a configuration with
\* a threshold outside [0, 100]: such a configuration is rejected when it
\* is supplied at construction or replaced between ticks.
GateConfigSane ==
    AfterGovernance => SaneThresholds(gov_cfg)


\* a call of step() begins with this step
CallBegins == pc = "idle" /\ pc' # "idle"

\* C14: the tick counter starts at 0, the step that begins a call of step()
\* adds exactly one to it, and no other step changes it, whether the call
\* goes on to return or to raise; so the tick ids of successive calls are
\* 1, 2, 3, ... and no id is used twice or taken back.
TickCounterOncePerCall ==
    /\ tick_id = 0
    /\ [][IF CallBegins THEN tick_id' = tick_id + 1
                        ELSE tick_id' = tick_id]_vars

\* C14 witness: the second call has failed after the first returned; the
\* failed call used tick id 2
FailedCallUsedIdSeen ==
    /\ pc = "idle"
    /\ result.status = "error"
    /\ last_ok_tick = 1
    /\ tick_id = 2
    /\ pre.tick_id = 1


Terminal == {"AUTO_APPROVED", "REQUIRES_HUMAN", "BLOCKED"}

\* proposals ps and their decisions ds agree on status and comment, and
\* every status is terminal
WrittenBack(ps, ds) ==
    /\ Len(ps) = Len(ds)
    /\ \A i \in DOMAIN ps :
          /\ ps[i].status = ds[i].status
          /\ ps[i].status \in Terminal
          /\ ds[i].status \in Terminal
          /\ ps[i].governance_notes = ds[i].comment

\* C15: once governance has run in a call, every proposal's status is the
\* status of its decision and its governance notes are the decision's
\* comment; the same holds in every returned snapshot, where no proposal
\* or decision is PENDING: each is AUTO_APPROVED, REQUIRES_HUMAN or BLOCKED.
WriteBackConsistent ==
    /\ AfterGovernance => WrittenBack(proposals, decisions)
    /\ Returned => WrittenBack(Snapshot.proposals, Snapshot.decisions)

\* C15 witness: a returned snapshot with a proposal sent to review and a
\* proposal approved, each carrying its decision's status and comment
WriteBackSeen ==
    /\ pc = "idle"
    /\ Returned
    /\ Len(Snapshot.proposals) = 2
    /\ Snapshot.proposals[1].status = "REQUIRES_HUMAN"
    /\ Snapshot.proposals[2].status = "AUTO_APPROVED"
    /\ Snapshot.proposals[2].governance_notes = Snapshot.decisions[2].comment
    /\ Snapshot.proposals[1].governance_notes # Snapshot.proposals[2].governance_notes


\* the order of the statements of step(): the seven stages, the audit
\* commit, the replacement of prev_world, the return
StepOrder ==
    <<"sensor", "perception", "risk", "policy", "proposal", "governance",
      "actuation", "audit", "commit", "return">>

\* position of p in StepOrder; 0 between calls
StepIndex(p) ==
    IF p = "idle" THEN 0 ELSE CHOOSE i \in DOMAIN StepOrder : StepOrder[i] = p

\* control moves from p to q along StepOrder, or leaves step() by an
\* exception out of a stage or an audit call, or by the return
InOrder(p, q) ==
    \/ StepIndex(q) = StepIndex(p) + 1
    \/ q = "idle" /\ p \in Stages \cup {"audit", "return"}

\* at position j of a call for tick t exactly the outputs of the stages
\* before j exist, and they are outputs of tick t
OnlyEarlierOutputs(j, t) ==
    /\ (frame # <<>>) <=> j > 1
    /\ (world # <<>>) <=> j > 2
    /\ (risk # <<>>) <=> j > 3
    /\ frame # <<>> => frame[1].tick = t
    /\ world # <<>> => world[1].tick = t
    /\ risk # <<>> => risk[1].tick = t
    /\ j <= 4 => intents = <<>>
    /\ j <= 5 => proposals = <<>>
    /\ j <= 6 => decisions = <<>>
    /\ j <= 7 => actuation = <<"list", <<>>>>
    /\ \A i \in DOMAIN proposals : proposals[i].tick = t
    /\ \A i \in DOMAIN decisions : decisions[i].tick = t

\* C16: within every call control passes through signal source,
\* perception, risk scoring, policy, proposal synthesis, governance and
\* actuation in this order, each stage finding only outputs of earlier
\* stages of the same tick; no ledger entry carries the tick's id while a
\* stage is still to run; and prev_world is replaced only by the step that
\* follows the append of all six entries of the tick.
StageOrderFixed ==
    [][/\ pc' # pc => InOrder(pc, pc')
       /\ pc # "idle" => OnlyEarlierOutputs(StepIndex(pc), tick_id)
       /\ pc' \in Stages =>
             \A i \in DOMAIN audit_chain' : audit_chain'[i].tick # tick_id'
       /\ prev_world' # prev_world =>
             /\ pc = "commit"
             /\ Len(audit_chain) = Len(pre.audit_chain) + 6
             /\ \A i \in DOMAIN audit_chain :
                   i > Len(pre.audit_chain) => audit_chain[i].tick = tick_id
      ]_vars

\* C16 witness: the second call has run its stages, appended its six
\* entries and then replaced the world state the first call left
StagesCompletedSeen ==
    /\ pc = "return"
    /\ tick_id = 2
    /\ pre.prev_world # <<>>
    /\ prev_world = world
    /\ prev_world # pre.prev_world
    /\ Len(audit_chain) = Len(pre.audit_chain) + 6
    /\ IsList(actuation)


\* pw is none if no call has returned yet, else a world state of the tick
\* the last returned call ran
WorldOfLastSuccess(pw) ==
    IF last_ok_tick = 0 THEN pw = <<>>
    ELSE pw # <<>> /\ pw[1].tick = last_ok_tick

\* C17: in every call the previous world state passed to the signal source
\* and the one passed to perception are the same value, the one held when
\* the call began: none if no earlier call returned, else the world state
\* of the most recent call that returned, whatever calls failed since.
\* When a call for tick N has returned, the held value is tick N's world
\* state; when a call has failed, the held value is unchanged.
PrevWorldHandOff ==
    /\ \A i \in DOMAIN handed :
          handed[i] = pre.prev_world /\ WorldOfLastSuccess(handed[i])
    /\ pc = "risk" => Len(handed) = 2
    /\ pc # "return" => WorldOfLastSuccess(prev_world)
    /\ pc = "return" => prev_world = world /\ world[1].tick = tick_id
    /\ (pc = "idle" /\ Returned) =>
          prev_world = <<Snapshot.world>> /\ Snapshot.world.tick = tick_id
    /\ (pc = "idle" /\ result.status = "error") =>
          prev_world = pre.prev_world

\* C17 witness: the second call has passed the world state of the first
\* call to the signal source and to perception
SameWorldHandedSeen ==
    /\ pc = "risk"
    /\ tick_id = 2
    /\ last_ok_tick = 1
    /\ Len(handed) = 2
    /\ handed[1] = handed[2]
    /\ handed[1] # <<>>
    /\ handed[1][1].tick = 1


\* the fixed-threshold classification of a score given in tenths of a point
LevelOfReported(score) ==
    IF score < 250 THEN "STABLE"
    ELSE IF score < 500 THEN "ELEVATED"
    ELSE IF score < 750 THEN "HIGH"
    ELSE "CRITICAL"

\* C19: in every risk report of the default risk module the score lies in
\* [0, 100] and the level is the classification of the score the report
\* carries: STABLE below 25, ELEVATED from 25 to below 50, HIGH from 50 to
\* below 75, CRITICAL from 75.
LevelMatchesReportedScore ==
    risk # <<>> =>
        /\ risk[1].score \in 0..1000
        /\ risk[1].level[2] = LevelOfReported(risk[1].score)

\* C20: a decision is AUTO_APPROVED only if the gate is open, the score is
\* at most max_auto_risk and below hard_block_risk, and the proposal's
\* intent kind is not in require_human_for, under every configuration,
\* also one with hard_block_risk below max_auto_risk; so a tick whose gate
\* is closed or whose score is above max_auto_risk or at or above
\* hard_block_risk emits no actuation command.
AutoOnlyInsideEnvelope ==
    /\ AfterGovernance =>
          \A i \in DOMAIN decisions :
              decisions[i].status = "AUTO_APPROVED" =>
                  /\ gov_cfg.gate_open
                  /\ Score <= gov_cfg.max_auto_risk
                  /\ Score < gov_cfg.hard_block_risk
                  /\ proposals[i].source_intent \notin
                        gov_cfg.require_human_for
    /\ (/\ AfterActuation
        /\ \/ ~gov_cfg.gate_open
           \/ Score > gov_cfg.max_auto_risk
           \/ Score >= gov_cfg.hard_block_risk) =>
          actuation[2] = <<>>

\* C20 witness: the gate is open, no intent kind is forced to review and
\* the score lies above max_auto_risk and below hard_block_risk; the
\* tick's decisions ask for review and no command is emitted
AboveCeilingSeen ==
    /\ AfterActuation
    /\ gov_cfg.gate_open
    /\ gov_cfg.require_human_for = {}
    /\ Score > gov_cfg.max_auto_risk
    /\ Score < gov_cfg.hard_block_risk
    /\ Len(decisions) >= 2
    /\ \A i \in DOMAIN decisions : decisions[i].status = "REQUIRES_HUMAN"
    /\ actuation[2] = <<>>

====
